---- MODULE Spec2Model ----
(***************************************************************************)
(* Model of the Verilator testbench tb/tb_top.cpp for conv3x3_accel_top.   *)
(*                                                                         *)
(* The testbench is one straight-line main(): reset, configuration         *)
(* handshake, start pulse, weight load loop, activation load loop, output  *)
(* collection loop, error-code report.  The unit under test is opaque: at  *)
(* every top->eval() its outputs take any value.  A "clock step" is one    *)
(* "clk = !clk; eval()" of the testbench.                                  *)
(*                                                                         *)
(* Input signals keep, in the state BEFORE a clock-step action, the values *)
(* the unit sees at that eval(); output signals hold, in the state AFTER   *)
(* it, the values the testbench reads next.                                *)
(***************************************************************************)
EXTENDS Integers, Sequences, FiniteSets, TLC

VARIABLES
    pc,            \* position of main()
    W, H, IC, OC,  \* test configuration (tb_top.cpp:82)
    seed,          \* srand() seed (tb_top.cpp:125)
    unit,          \* class of unit behaviour the run is checked against
    rst_i,         \* loop counter i of the reset loop (tb_top.cpp:72)
    \* signals driven by the testbench
    clk, rst_n, cfg_valid, cfg_bus, start,
    wgt_in_valid, wgt_in_last, wgt_in_data,
    act_in_valid, act_in_last, act_in_data,
    out_ready,
    \* signals driven by the unit
    cfg_ready, wgt_in_ready, act_in_ready, out_valid, out_last, done, error_code,
    \* locals of main()
    wgt_sent, act_sent, beat_count, rand_calls, out_received, cycles,
    report,        \* which of the two printf branches of lines 228-232 ran
    \* observers (no counterpart in the code; written only, never read by it)
    beat_log,      \* the beats packed in the current load phase
    start_steps,   \* clock steps at which the unit saw start = 1
    wgt_accepts,   \* clock steps after which wgt_in_ready and wgt_in_valid were both 1
    act_accepts,   \* the same for the activation channel
    load_stepped,  \* channels whose load loop performed a clock step
    load_valid,    \* channels whose in_valid was 1 at some clock step
    out_beats,     \* rising edges in the output loop with out_valid and out_ready 1
    out_held,      \* in the output loop out_valid changed on rising edges only
    out_silent,    \* out_valid and done were 0 after every step of the output loop
    edges          \* counts of clock steps and rising clk edges by what the unit saw

signals_in == <<clk, rst_n, cfg_valid, cfg_bus, start, wgt_in_valid, wgt_in_last,
                wgt_in_data, act_in_valid, act_in_last, act_in_data, out_ready>>
signals_out == <<cfg_ready, wgt_in_ready, act_in_ready, out_valid, out_last, done,
                 error_code>>
locals == <<wgt_sent, act_sent, beat_count, rand_calls, out_received, cycles, report>>
observers == <<beat_log, start_steps, wgt_accepts, act_accepts, load_stepped,
               load_valid, out_beats, out_held, out_silent, edges>>
config == <<W, H, IC, OC, seed, unit>>
vars == <<pc, config, rst_i, signals_in, signals_out, locals, observers>>

(***************************************************************************)
(* Bounds of the model.                                                    *)
(***************************************************************************)
MaxDim == 4        \* square images, W = H in 3..MaxDim
MaxIC == 4         \* IC ranges over 0..MaxIC
MaxOC == 2         \* OC ranges over 0..MaxOC
MaxSeed == 0       \* srand() seeds 0..MaxSeed
MaxErr == 1        \* error_code ranges over 0..MaxErr
\* The cycle budget of the output loop.  The code's value is 100000
\* (tb_top.cpp:199); the model runs the same loop with a small budget.
max_cycles == 4

(***************************************************************************)
(* Program constants.                                                      *)
(***************************************************************************)
ResetToggles == 20     \* tb_top.cpp:72
stride == 0            \* tb_top.cpp:83  (code 0 means stride 1)
act_bits == 2          \* tb_top.cpp:84
wgt_bits == 2          \* tb_top.cpp:84
Lanes == 4             \* tb_top.cpp:133  words per beat
PerWord == 16          \* tb_top.cpp:135  elements per 32-bit word
OutLanes == 4          \* tb_top.cpp:211  elements credited per output beat

BIT == {0, 1}

\* tb_top.cpp:85-86, 121-122, 159-160, 198
OH == (H - 3) \div (stride + 1) + 1
OW == (W - 3) \div (stride + 1) + 1
wgt_elements == OC * IC * 9
wgt_beats == (wgt_elements * wgt_bits + 127) \div 128
act_elements == H * W * IC
act_beats == (act_elements * act_bits + 127) \div 128
out_elements == OH * OW * OC

(***************************************************************************)
(* rand() & 0x3 : the k-th call (k = 0, 1, ...) after srand(seed).  The    *)
(* library generator is a fixed function of the seed and the call number.  *)
(***************************************************************************)
Rand2(s, k) == ((s + 1) * (k + 1) + (k \div 3) + (k \div 7) * (k % 5)) % 4

\* bitwise OR of two 2-bit values
Or2(a, b) ==
    (IF a % 2 = 1 \/ b % 2 = 1 THEN 1 ELSE 0)
    + 2 * (IF a \div 2 = 1 \/ b \div 2 = 1 THEN 1 ELSE 0)

(***************************************************************************)
(* A 32-bit word is the sequence of its 16 two-bit fields, field j+1       *)
(* holding bits 2j+1..2j.  word |= (w << (j*2)) ORs w into field j.        *)
(***************************************************************************)
ZeroWord == [j \in 1..PerWord |-> 0]
ZeroBeat == [i \in 1..Lanes |-> ZeroWord]

\* a shift that fills the word from its high end
OrShiftHigh(word, w, j) == [word EXCEPT ![PerWord - j] = Or2(@, w)]

OrShift(word, w, j) == [word EXCEPT ![j + 1] = Or2(@, w)]

\* an inner loop that stops one element short of the word
RECURSIVE PackWordShort(_, _, _, _, _)
PackWordShort(word, j, sent, n, calls) ==
    IF j < PerWord - 1 /\ sent < n
    THEN PackWordShort(OrShift(word, Rand2(seed, calls), j), j + 1, sent + 1, n,
                       calls + 1)
    ELSE [word |-> word, sent |-> sent, calls |-> calls]

\* an inner loop without the test sent < n: it packs past the stream's end
RECURSIVE PackWordOver(_, _, _, _, _)
PackWordOver(word, j, sent, n, calls) ==
    IF j < PerWord
    THEN PackWordOver(OrShift(word, Rand2(seed, calls), j), j + 1, sent + 1, n,
                      calls + 1)
    ELSE [word |-> word, sent |-> sent, calls |-> calls]

\* The inner loop, tb_top.cpp:135-139 (and 171-175): from index j on.
RECURSIVE PackWord(_, _, _, _, _)
PackWord(word, j, sent, n, calls) ==
    IF j < PerWord /\ sent < n
    THEN PackWord(OrShift(word, Rand2(seed, calls), j), j + 1, sent + 1, n, calls + 1)
    ELSE [word |-> word, sent |-> sent, calls |-> calls]

\* an outer loop that ORs into the word already on the bus (word not zeroed)
RECURSIVE PackBeatNoClear(_, _, _, _, _)
PackBeatNoClear(data, i, sent, n, calls) ==
    IF i < Lanes
    THEN CHOOSE b \in { PackBeatNoClear([data EXCEPT ![i + 1] = r.word], i + 1,
                                         r.sent, n, r.calls) :
                             r \in {PackWord(data[i + 1], 0, sent, n, calls)} } : TRUE
    ELSE [data |-> data, sent |-> sent, calls |-> calls]

\* The outer loop, tb_top.cpp:133-141 (and 169-177): from lane i on.
\* r is the state after the inner loop for lane i: the word, and the
\* counters the next lane starts from.
RECURSIVE PackBeat(_, _, _, _, _)
PackBeat(data, i, sent, n, calls) ==
    IF i < Lanes
    THEN CHOOSE b \in { PackBeat([data EXCEPT ![i + 1] = r.word], i + 1, r.sent,
                                  n, r.calls) :
                             r \in {PackWord(ZeroWord, 0, sent, n, calls)} } : TRUE
    ELSE [data |-> data, sent |-> sent, calls |-> calls]

\* a last flag that misses the beat ending exactly at n
LastFlagStrict(sent, n) == IF sent > n THEN 1 ELSE 0

\* tb_top.cpp:142 (and 178)
LastFlag(sent, n) == IF sent >= n THEN 1 ELSE 0

\* never packs a beat, whatever in_ready was read
PackCondNever(ready) == FALSE

\* packs a beat on every iteration, whatever in_ready was read
PackCondAlways(ready) == TRUE

\* tb_top.cpp:130 (and 167): a beat is packed when in_ready was read 1
PackCond(ready) == ready = 1

\* a loop test that is off by one
LoadCondOffByOne(sent, n) == sent <= n

\* tb_top.cpp:129 (and 166): the test of the load loop
LoadCond(sent, n) == sent < n

\* a test that never sees the beat accepted
AcceptCondNever(ready, valid) == FALSE

\* tb_top.cpp:151 (and 187)
AcceptCond(ready, valid) == ready = 1 /\ valid = 1

(***************************************************************************)
(* The unit: what eval() may leave on the outputs.  The unit is opaque, so *)
(* every output main() can read before the next eval() takes any value.    *)
(* An output main() cannot read before the next eval() overwrites it is    *)
(* recorded as 0:                                                          *)
(*   cfg_ready     is read only at line 103, before the start pulse;       *)
(*   wgt_in_ready  is read only at lines 130 and 151, in the weight loop;  *)
(*   act_in_ready  is read only at lines 167 and 187;                      *)
(*   out_valid, out_last and done are read only at lines 209, 212 and 218, *)
(*                 after the eval() of a step of the output loop;          *)
(*   error_code    is read only at line 228, and every run passes the      *)
(*                 eval() of the start pulse before it.                    *)
(***************************************************************************)
Ready == IF unit = "ready" THEN {1} ELSE BIT

UnitOutputs ==
    [cfg_ready : IF pc \in {"reset", "cfg_wait"} THEN BIT ELSE {0},
     wgt_in_ready : IF pc \in {"start_pulse", "wgt_step"} THEN Ready ELSE {0},
     act_in_ready : IF pc \in {"start_pulse", "wgt_step", "act_step"}
                    THEN Ready ELSE {0},
     out_valid : IF pc = "out_loop" THEN BIT ELSE {0},
     out_last : IF pc = "out_loop" THEN BIT ELSE {0},
     done : IF pc = "out_loop" THEN BIT ELSE {0},
     error_code : IF pc \in {"reset", "cfg_wait"} THEN {0} ELSE 0..MaxErr]

\* 1 when the clock step about to be taken is a rising edge of clk and the
\* one-bit signal x is 1 at it, else 0
Rising(x) == IF clk = 0 /\ x = 1 THEN 1 ELSE 0

\* top->clk = !top->clk; top->eval();
Tick(u) ==
    /\ clk' = 1 - clk
    /\ cfg_ready' = u.cfg_ready
    /\ wgt_in_ready' = u.wgt_in_ready
    /\ act_in_ready' = u.act_in_ready
    /\ out_valid' = u.out_valid
    /\ out_last' = u.out_last
    /\ done' = u.done
    /\ error_code' = u.error_code
    /\ start_steps' = start_steps + start
    /\ load_valid' = load_valid \cup (IF wgt_in_valid = 1 THEN {"wgt"} ELSE {})
                                \cup (IF act_in_valid = 1 THEN {"act"} ELSE {})
    /\ edges' =
          [rst_low_steps |-> edges.rst_low_steps + (1 - rst_n),
           rst_low_rises |-> edges.rst_low_rises + Rising(1 - rst_n),
           start_rises |-> edges.start_rises + Rising(start),
           load_rises |-> edges.load_rises
                            + Rising(wgt_in_valid * wgt_in_ready)
                            + Rising(act_in_valid * act_in_ready)]

(***************************************************************************)
(* Initial state: the state of main() on reaching the reset loop.          *)
(***************************************************************************)
InitSignals ==
    /\ pc = "reset" /\ rst_i = 0
    /\ clk = 0 /\ rst_n = 0 /\ cfg_valid = 0 /\ start = 0
    /\ cfg_bus = [W |-> 0, H |-> 0, IC |-> 0, OC |-> 0, stride |-> 0,
                  act_bits |-> 0, wgt_bits |-> 0, mode_raw_out |-> 0]
    /\ wgt_in_valid = 0 /\ wgt_in_last = 0 /\ wgt_in_data = ZeroBeat
    /\ act_in_valid = 0 /\ act_in_last = 0 /\ act_in_data = ZeroBeat
    /\ out_ready = 1
    /\ cfg_ready = 0 /\ wgt_in_ready = 0 /\ act_in_ready = 0
    /\ out_valid = 0 /\ out_last = 0 /\ done = 0 /\ error_code = 0
    /\ wgt_sent = 0 /\ act_sent = 0 /\ beat_count = 0 /\ rand_calls = 0
    /\ out_received = 0 /\ cycles = 0 /\ report = "none"
    /\ beat_log = <<>> /\ start_steps = 0 /\ wgt_accepts = 0 /\ act_accepts = 0
    /\ load_stepped = {} /\ load_valid = {}
    /\ out_beats = 0 /\ out_held = TRUE /\ out_silent = TRUE
    /\ edges = [rst_low_steps |-> 0, rst_low_rises |-> 0, start_rises |-> 0,
                load_rises |-> 0]

Init ==
    /\ W \in 3..MaxDim /\ H = W
    /\ IC \in 0..MaxIC /\ OC \in 0..MaxOC
    /\ seed \in 0..MaxSeed
    /\ unit = "any"
    /\ InitSignals

\* The configuration main() hard-codes (tb_top.cpp:82), with a unit whose
\* wgt_in_ready and act_in_ready are 1 after every eval().
InitScenario ==
    /\ W = 8 /\ H = 8 /\ IC = 16 /\ OC = 16
    /\ seed \in 0..MaxSeed
    /\ unit = "ready"
    /\ InitSignals

\* The largest image, with each channel count either 0 (an empty stream) or
\* the largest, and any unit: the configurations the termination argument
\* distinguishes.
InitLive ==
    /\ W = MaxDim /\ H = W
    /\ IC \in {0, MaxIC} /\ OC \in {0, MaxOC}
    /\ seed \in 0..MaxSeed
    /\ unit = "any"
    /\ InitSignals

\* a reset loop of 10 toggles, which is 5 clock cycles
ResetCondHalf(i) == i < ResetToggles \div 2

\* tb_top.cpp:72: the test of the reset loop
ResetCond(i) == i < ResetToggles

(***************************************************************************)
(* Reset, tb_top.cpp:72-77                                                 *)
(***************************************************************************)
ResetToggle ==
    /\ pc = "reset" /\ ResetCond(rst_i)
    /\ \E u \in UnitOutputs : Tick(u)
    /\ rst_i' = rst_i + 1
    /\ UNCHANGED <<pc, config, rst_n, cfg_valid, cfg_bus, start, wgt_in_valid,
                   wgt_in_last, wgt_in_data, act_in_valid, act_in_last, act_in_data,
                   out_ready, locals, beat_log, wgt_accepts, act_accepts,
                   load_stepped, out_beats, out_held, out_silent>>

\* tb_top.cpp:78-101: release reset, drive the configuration
ResetRelease ==
    /\ pc = "reset" /\ ~ResetCond(rst_i)
    /\ rst_n' = 1
    /\ cfg_valid' = 1
    /\ cfg_bus' = [W |-> W, H |-> H, IC |-> IC, OC |-> OC, stride |-> stride,
                   act_bits |-> act_bits, wgt_bits |-> wgt_bits, mode_raw_out |-> 1]
    /\ pc' = "cfg_wait"
    /\ UNCHANGED <<config, rst_i, clk, start, wgt_in_valid, wgt_in_last, wgt_in_data,
                   act_in_valid, act_in_last, act_in_data, out_ready, signals_out,
                   locals, observers>>

(***************************************************************************)
(* Configuration handshake and start pulse, tb_top.cpp:103-116             *)
(***************************************************************************)
\* one iteration of while (!top->cfg_ready), tb_top.cpp:103-108
CfgWait ==
    /\ pc = "cfg_wait" /\ cfg_ready = 0
    /\ \E u \in UnitOutputs : Tick(u)
    /\ UNCHANGED <<pc, config, rst_i, rst_n, cfg_valid, cfg_bus, start, wgt_in_valid,
                   wgt_in_last, wgt_in_data, act_in_valid, act_in_last, act_in_data,
                   out_ready, locals, beat_log, wgt_accepts, act_accepts,
                   load_stepped, out_beats, out_held, out_silent>>

\* the loop exits, tb_top.cpp:103, 110-111
CfgAccept ==
    /\ pc = "cfg_wait" /\ cfg_ready # 0
    /\ cfg_valid' = 0
    /\ start' = 1
    /\ pc' = "start_pulse"
    /\ UNCHANGED <<config, rst_i, clk, rst_n, cfg_bus, wgt_in_valid, wgt_in_last,
                   wgt_in_data, act_in_valid, act_in_last, act_in_data, out_ready,
                   signals_out, locals, observers>>

\* a start pulse that is never taken back (line 116 missing)
StartPulseHeld ==
    /\ pc = "start_pulse"
    /\ \E u \in UnitOutputs : Tick(u)
    /\ start' = start
    /\ wgt_sent' = 0
    /\ beat_count' = 0
    /\ beat_log' = <<>>
    /\ pc' = "wgt_top"
    /\ UNCHANGED <<config, rst_i, rst_n, cfg_valid, cfg_bus, wgt_in_valid,
                   wgt_in_last, wgt_in_data, act_in_valid, act_in_last, act_in_data,
                   out_ready, act_sent, rand_calls, out_received, cycles, report,
                   wgt_accepts, act_accepts, load_stepped, out_beats, out_held,
                   out_silent>>

\* tb_top.cpp:112-127: one clock step with start = 1, then start = 0
StartPulse ==
    /\ pc = "start_pulse"
    /\ \E u \in UnitOutputs : Tick(u)
    /\ start' = 0
    /\ wgt_sent' = 0
    /\ beat_count' = 0
    /\ beat_log' = <<>>
    /\ pc' = "wgt_top"
    /\ UNCHANGED <<config, rst_i, rst_n, cfg_valid, cfg_bus, wgt_in_valid,
                   wgt_in_last, wgt_in_data, act_in_valid, act_in_last, act_in_data,
                   out_ready, act_sent, rand_calls, out_received, cycles, report,
                   wgt_accepts, act_accepts, load_stepped, out_beats, out_held,
                   out_silent>>

(***************************************************************************)
(* Weight load loop, tb_top.cpp:129-155                                    *)
(***************************************************************************)
\* loop test and the if-block, tb_top.cpp:129-144
WgtTop ==
    /\ pc = "wgt_top" /\ LoadCond(wgt_sent, wgt_elements)
    /\ IF PackCond(wgt_in_ready)
       THEN LET r == PackBeat(wgt_in_data, 0, wgt_sent, wgt_elements, rand_calls)
                l == LastFlag(r.sent, wgt_elements)
            IN  /\ wgt_in_valid' = 1
                /\ wgt_in_data' = r.data
                /\ wgt_sent' = r.sent
                /\ rand_calls' = r.calls
                /\ wgt_in_last' = l
                /\ beat_count' = beat_count + 1
                /\ beat_log' = Append(beat_log,
                                      [lo |-> wgt_sent, hi |-> r.sent, last |-> l])
       ELSE UNCHANGED <<wgt_in_valid, wgt_in_data, wgt_sent, rand_calls,
                        wgt_in_last, beat_count, beat_log>>
    /\ pc' = "wgt_step"
    /\ UNCHANGED <<config, rst_i, clk, rst_n, cfg_valid, cfg_bus, start,
                   act_in_valid, act_in_last, act_in_data, out_ready, signals_out,
                   act_sent, out_received, cycles, report, start_steps, edges, wgt_accepts,
                   act_accepts, load_stepped, load_valid, out_beats, out_held,
                   out_silent>>

\* the clock step and the if after it, tb_top.cpp:146-153
WgtStep ==
    /\ pc = "wgt_step"
    /\ \E u \in UnitOutputs :
          /\ Tick(u)
          /\ IF AcceptCond(u.wgt_in_ready, wgt_in_valid)
             THEN wgt_in_valid' = 0 /\ wgt_accepts' = wgt_accepts + 1
             ELSE UNCHANGED <<wgt_in_valid, wgt_accepts>>
    /\ load_stepped' = load_stepped \cup {"wgt"}
    /\ pc' = "wgt_top"
    /\ UNCHANGED <<config, rst_i, rst_n, cfg_valid, cfg_bus, start, wgt_in_last,
                   wgt_in_data, act_in_valid, act_in_last, act_in_data, out_ready,
                   locals, beat_log, act_accepts, out_beats, out_held, out_silent>>

\* the loop exits without line 155: wgt_in_valid is left as it is
WgtExitKeepsValid ==
    /\ pc = "wgt_top" /\ ~LoadCond(wgt_sent, wgt_elements)
    /\ wgt_in_valid' = wgt_in_valid
    /\ act_sent' = 0
    /\ beat_count' = 0
    /\ beat_log' = <<>>
    /\ edges' = [edges EXCEPT !.load_rises = 0]
    /\ pc' = "act_top"
    /\ UNCHANGED <<config, rst_i, clk, rst_n, cfg_valid, cfg_bus, start, wgt_in_last,
                   wgt_in_data, act_in_valid, act_in_last, act_in_data, out_ready,
                   signals_out, wgt_sent, rand_calls, out_received, cycles, report,
                   start_steps, wgt_accepts, act_accepts, load_stepped, load_valid,
                   out_beats, out_held, out_silent>>

\* the loop exits, tb_top.cpp:129, 155-164
WgtExit ==
    /\ pc = "wgt_top" /\ ~LoadCond(wgt_sent, wgt_elements)
    /\ wgt_in_valid' = 0
    /\ act_sent' = 0
    /\ beat_count' = 0
    /\ beat_log' = <<>>
    /\ edges' = [edges EXCEPT !.load_rises = 0]
    /\ pc' = "act_top"
    /\ UNCHANGED <<config, rst_i, clk, rst_n, cfg_valid, cfg_bus, start, wgt_in_last,
                   wgt_in_data, act_in_valid, act_in_last, act_in_data, out_ready,
                   signals_out, wgt_sent, rand_calls, out_received, cycles, report,
                   start_steps, wgt_accepts, act_accepts, load_stepped, load_valid,
                   out_beats, out_held, out_silent>>

(***************************************************************************)
(* Activation load loop, tb_top.cpp:166-191                                *)
(***************************************************************************)
\* loop test and the if-block, tb_top.cpp:166-180
ActTop ==
    /\ pc = "act_top" /\ LoadCond(act_sent, act_elements)
    /\ IF PackCond(act_in_ready)
       THEN LET r == PackBeat(act_in_data, 0, act_sent, act_elements, rand_calls)
                l == LastFlag(r.sent, act_elements)
            IN  /\ act_in_valid' = 1
                /\ act_in_data' = r.data
                /\ act_sent' = r.sent
                /\ rand_calls' = r.calls
                /\ act_in_last' = l
                /\ beat_count' = beat_count + 1
                /\ beat_log' = Append(beat_log,
                                      [lo |-> act_sent, hi |-> r.sent, last |-> l])
       ELSE UNCHANGED <<act_in_valid, act_in_data, act_sent, rand_calls,
                        act_in_last, beat_count, beat_log>>
    /\ pc' = "act_step"
    /\ UNCHANGED <<config, rst_i, clk, rst_n, cfg_valid, cfg_bus, start,
                   wgt_in_valid, wgt_in_last, wgt_in_data, out_ready, signals_out,
                   wgt_sent, out_received, cycles, report, start_steps, edges, wgt_accepts,
                   act_accepts, load_stepped, load_valid, out_beats, out_held,
                   out_silent>>

\* the clock step and the if after it, tb_top.cpp:182-189
ActStep ==
    /\ pc = "act_step"
    /\ \E u \in UnitOutputs :
          /\ Tick(u)
          /\ IF AcceptCond(u.act_in_ready, act_in_valid)
             THEN act_in_valid' = 0 /\ act_accepts' = act_accepts + 1
             ELSE UNCHANGED <<act_in_valid, act_accepts>>
    /\ load_stepped' = load_stepped \cup {"act"}
    /\ pc' = "act_top"
    /\ UNCHANGED <<config, rst_i, rst_n, cfg_valid, cfg_bus, start, wgt_in_valid,
                   wgt_in_last, wgt_in_data, act_in_last, act_in_data, out_ready,
                   locals, beat_log, wgt_accepts, out_beats, out_held, out_silent>>

\* the loop exits, tb_top.cpp:166, 191-200
ActExit ==
    /\ pc = "act_top" /\ ~LoadCond(act_sent, act_elements)
    /\ act_in_valid' = 0
    /\ out_received' = 0
    /\ cycles' = 0
    /\ out_beats' = 0
    /\ out_held' = TRUE
    /\ out_silent' = TRUE
    /\ edges' = [edges EXCEPT !.load_rises = 0]
    /\ pc' = "out_loop"
    /\ UNCHANGED <<config, rst_i, clk, rst_n, cfg_valid, cfg_bus, start, wgt_in_valid,
                   wgt_in_last, wgt_in_data, act_in_last, act_in_data, out_ready,
                   signals_out, wgt_sent, act_sent, beat_count, rand_calls, report,
                   beat_log, start_steps, wgt_accepts, act_accepts, load_stepped,
                   load_valid>>

(***************************************************************************)
(* Output collection loop, tb_top.cpp:202-222                              *)
(***************************************************************************)
\* a loop test without the cycle budget
OutLoopCondNoBudget(cyc, received) == received < out_elements

\* tb_top.cpp:202
OutLoopCond(cyc, received) == cyc < max_cycles /\ received < out_elements

\* tb_top.cpp:209
OutAccept(valid, ready) == valid # 0 /\ ready # 0

\* tb_top.cpp:209-211
OutCredit(received, valid, ready) ==
    IF OutAccept(valid, ready) THEN received + OutLanes ELSE received

\* the loop without its second break (done ignored)
OutBreakNoDone(valid, ready, last, dn) == OutAccept(valid, ready) /\ last # 0

\* the two break statements, tb_top.cpp:212-215 and 218-221
OutBreak(valid, ready, last, dn) ==
    (OutAccept(valid, ready) /\ last # 0) \/ dn # 0

\* one iteration, tb_top.cpp:202-221
OutStep ==
    /\ pc = "out_loop" /\ OutLoopCond(cycles, out_received)
    /\ \E u \in UnitOutputs :
          /\ Tick(u)
          /\ out_received' = OutCredit(out_received, u.out_valid, out_ready)
          /\ pc' = IF OutBreak(u.out_valid, out_ready, u.out_last, u.done)
                   THEN "report" ELSE "out_loop"
          /\ out_beats' = out_beats
                + (IF clk = 0 /\ u.out_valid = 1 /\ out_ready = 1 THEN 1 ELSE 0)
          /\ out_held' = (out_held /\ (clk = 1 => u.out_valid = out_valid))
          /\ out_silent' = (out_silent /\ u.out_valid = 0 /\ u.done = 0)
    /\ cycles' = cycles + 1
    /\ UNCHANGED <<config, rst_i, rst_n, cfg_valid, cfg_bus, start, wgt_in_valid,
                   wgt_in_last, wgt_in_data, act_in_valid, act_in_last, act_in_data,
                   out_ready, wgt_sent, act_sent, beat_count, rand_calls, report,
                   beat_log, wgt_accepts, act_accepts, load_stepped>>

\* the loop condition fails, tb_top.cpp:202
OutExit ==
    /\ pc = "out_loop" /\ ~OutLoopCond(cycles, out_received)
    /\ pc' = "report"
    /\ UNCHANGED <<config, rst_i, signals_in, signals_out, locals, observers>>

\* tb_top.cpp:228-232
ErrorReport(code) == IF code # 0 THEN "error" ELSE "no_error"

\* tb_top.cpp:224-243
Report ==
    /\ pc = "report"
    /\ report' = ErrorReport(error_code)
    /\ pc' = "done"
    /\ UNCHANGED <<config, rst_i, signals_in, signals_out, wgt_sent, act_sent,
                   beat_count, rand_calls, out_received, cycles, observers>>

Next ==
    \/ ResetToggle
    \/ ResetRelease
    \/ CfgWait
    \/ CfgAccept
    \/ StartPulse
    \/ WgtTop
    \/ WgtStep
    \/ WgtExit
    \/ ActTop
    \/ ActStep
    \/ ActExit
    \/ OutStep
    \/ OutExit
    \/ Report

Spec == Init /\ [][Next]_vars
SpecScenario == InitScenario /\ [][Next]_vars
\* main() is a sequential program that always executes its next statement:
\* as long as some step is enabled, a step is eventually taken.
SpecLive == InitLive /\ [][Next]_vars /\ WF_vars(Next)

(***************************************************************************)
(* Properties                                                              *)
(***************************************************************************)
InWgtLoop == pc \in {"wgt_top", "wgt_step"}
InActLoop == pc \in {"act_top", "act_step"}
AfterWgtLoop == pc \in {"act_top", "act_step", "out_loop", "report", "done"}
AfterActLoop == pc \in {"out_loop", "report", "done"}
WgtLoopOver == pc = "wgt_top" /\ ~LoadCond(wgt_sent, wgt_elements)
ActLoopOver == (pc = "act_top" /\ ~LoadCond(act_sent, act_elements)) \/ AfterActLoop

\* C1: in a load phase in_valid goes from 1 to 0 only over a step after
\* which in_ready is read 1 (the beat, the last one included, was seen
\* accepted); the phase does not end on an unaccepted beat.
C1_ValidHeldUntilAccepted ==
    [][ /\ (wgt_in_valid = 1 /\ wgt_in_valid' = 0 => wgt_in_ready' = 1)
        /\ (act_in_valid = 1 /\ act_in_valid' = 0 => act_in_ready' = 1) ]_vars

\* the element count of the stream beat_log belongs to
LogElements == IF InWgtLoop THEN wgt_elements ELSE act_elements
LastBeats == {k \in 1..Len(beat_log) : beat_log[k].last = 1}

\* C2: among the beats packed in a load phase of N >= 1 elements the beat
\* driven with in_last = 1 is the one holding element N-1, every other beat
\* is driven with in_last = 0, and when the phase is over there is exactly
\* one such beat.
C2_ExactlyOneLastBeat ==
    /\ \A k \in 1..Len(beat_log) :
          /\ beat_log[k].lo = (IF k = 1 THEN 0 ELSE beat_log[k - 1].hi)
          /\ beat_log[k].last = 1
                <=> (beat_log[k].lo <= LogElements - 1
                     /\ LogElements - 1 < beat_log[k].hi)
    /\ (InWgtLoop /\ beat_log # <<>>
          => wgt_in_last = beat_log[Len(beat_log)].last)
    /\ (InActLoop /\ beat_log # <<>>
          => act_in_last = beat_log[Len(beat_log)].last)
    /\ (WgtLoopOver /\ wgt_elements >= 1 => Cardinality(LastBeats) = 1)
    /\ (ActLoopOver /\ act_elements >= 1 => Cardinality(LastBeats) = 1)

C2_Witness ==
    /\ WgtLoopOver /\ Len(beat_log) = 2
    /\ beat_log[1].last = 0 /\ beat_log[2].last = 1
    /\ beat_log[2].hi = wgt_elements

\* C3: with W=8, H=8, IC=16, OC=16 and a unit whose wgt_in_ready and
\* act_in_ready are always 1, the weight loop is over after exactly 36
\* accepted clock steps and the activation loop after exactly 16.
C3_ScenarioAcceptedCycles ==
    /\ wgt_elements = 2304 /\ act_elements = 1024
    /\ wgt_accepts <= 36 /\ act_accepts <= 16
    /\ (InWgtLoop /\ ~WgtLoopOver => wgt_accepts < 36)
    /\ (WgtLoopOver \/ AfterWgtLoop => wgt_accepts = 36)
    /\ (WgtLoopOver => beat_count = 36)
    /\ (InActLoop /\ ~ActLoopOver => act_accepts < 16)
    /\ (ActLoopOver => act_accepts = 16)
    /\ (pc = "act_top" /\ ActLoopOver => beat_count = 16)

C3_Witness ==
    /\ unit = "ready" /\ pc = "out_loop"
    /\ wgt_sent = 2304 /\ act_sent = 1024
    /\ wgt_accepts = 36 /\ act_accepts = 16

\* C4: while a channel's in_valid is 1 and its in_ready is read 0, no step
\* changes the channel's data words or its in_last.
C4_BeatStableWhileNotReady ==
    [][ /\ (wgt_in_valid = 1 /\ wgt_in_ready = 0
              => wgt_in_data' = wgt_in_data /\ wgt_in_last' = wgt_in_last)
        /\ (act_in_valid = 1 /\ act_in_ready = 0
              => act_in_data' = act_in_data /\ act_in_last' = act_in_last) ]_vars

\* a beat that was stalled over one clock step and is about to be stepped again,
\* with elements of the stream still to pack
C4_Witness ==
    /\ pc = "wgt_step" /\ wgt_in_valid = 1 /\ wgt_in_ready = 0
    /\ beat_count = 1 /\ wgt_sent < wgt_elements
    /\ "wgt" \in load_stepped

\* C5: cfg_valid is 1 at every clock step of the wait for cfg_ready; once
\* cfg_ready is read 1, cfg_valid is 0 and start is 1 for exactly one clock
\* step; after it start is 0 for good; cfg_valid and start are never both 1.
C5_CfgThenStartPulse ==
    /\ ~(cfg_valid = 1 /\ start = 1)
    /\ start_steps <= 1
    /\ (pc = "reset" => cfg_valid = 0 /\ start = 0 /\ start_steps = 0)
    /\ (pc = "cfg_wait" => cfg_valid = 1 /\ start = 0 /\ start_steps = 0)
    /\ (pc = "start_pulse"
          => cfg_ready = 1 /\ cfg_valid = 0 /\ start = 1 /\ start_steps = 0)
    /\ (pc \notin {"reset", "cfg_wait", "start_pulse"}
          => cfg_valid = 0 /\ start = 0 /\ start_steps = 1)

C5_Witness == pc = "done" /\ start_steps = 1 /\ start = 0 /\ cfg_valid = 0

\* what the claims call the outcome of a run
Outcome ==
    IF error_code # 0 THEN "error"
    ELSE IF cycles >= max_cycles /\ out_received < out_elements THEN "timed_out"
    ELSE "no_error"

\* C6: if the unit never asserts out_valid nor done, the output loop is left
\* with cycles = max_cycles and the run is classified as timed out.
C6_SilentUnitTimesOut ==
    (pc = "done" /\ out_silent /\ out_elements > 0 /\ error_code = 0)
        => (cycles = max_cycles /\ report = "timed_out")

\* the part of C6 about the number of clock steps
SilentUnitExhaustsBudget ==
    /\ (pc \in {"report", "done"} /\ out_silent /\ out_elements > 0
          => cycles = max_cycles)
    /\ (pc = "out_loop" /\ out_silent => out_received = 0)

\* C7: the run is reported as an error when error_code is not 0, otherwise
\* as timed out when the budget is used up with out_received below the
\* target, otherwise as completed without error.
C7_OutcomeClassification == pc = "done" => report = Outcome

\* the exit conditions of the output loop, on what the last clock step of
\* the loop left
OutExitCond ==
    \/ out_received >= out_elements
    \/ cycles >= max_cycles
    \/ cycles > 0 /\ out_valid = 1 /\ out_ready = 1 /\ out_last = 1
    \/ cycles > 0 /\ done = 1

\* C8: the output loop takes a clock step only while none of the exit
\* conditions holds, and is left only when one of them holds.
C8_OutLoopExit ==
    [][ /\ (pc = "out_loop" /\ cycles' # cycles => ~OutExitCond)
        /\ (pc = "out_loop" /\ pc' = "out_loop" => ~OutExitCond /\ cycles' = cycles + 1)
        /\ (pc = "out_loop" /\ pc' # "out_loop" => pc' = "report" /\ OutExitCond') ]_vars

\* left on done alone, with budget and elements to go
C8_Witness ==
    /\ pc = "report" /\ done = 1 /\ out_valid = 0
    /\ 0 < cycles /\ cycles < max_cycles /\ out_received < out_elements
    /\ out_received > 0

\* C9: for a unit that holds out_valid over a full clock period,
\* out_received is 4 times the number of rising clock edges at which
\* out_valid and out_ready were both 1.
C9_ReceivedCountsTransfers ==
    (AfterActLoop /\ out_held) => out_received = OutLanes * out_beats

\* C10: a load phase of 0 elements takes no clock step, packs no beat and
\* leaves in_valid and in_last at 0.
C10_EmptyStream ==
    /\ (wgt_elements = 0
          => /\ pc # "wgt_step" /\ "wgt" \notin load_stepped
             /\ "wgt" \notin load_valid
             /\ wgt_in_valid = 0 /\ wgt_in_last = 0 /\ wgt_in_data = ZeroBeat
             /\ wgt_sent = 0
             /\ (InWgtLoop => beat_count = 0 /\ beat_log = <<>>))
    /\ (act_elements = 0
          => /\ pc # "act_step" /\ "act" \notin load_stepped
             /\ "act" \notin load_valid
             /\ act_in_valid = 0 /\ act_in_last = 0 /\ act_in_data = ZeroBeat
             /\ act_sent = 0
             /\ (InActLoop \/ AfterActLoop => beat_count = 0 /\ beat_log = <<>>))

\* the weight phase was empty and the activation phase was not
C10_Witness ==
    /\ pc = "out_loop" /\ wgt_elements = 0 /\ act_elements > 0
    /\ "act" \in load_stepped /\ "wgt" \notin load_stepped
\* the phases of the run, in their order
PhaseRank ==
    CASE pc = "reset" -> 0
      [] pc \in {"cfg_wait", "start_pulse"} -> 1
      [] InWgtLoop -> 2
      [] InActLoop -> 3
      [] pc = "out_loop" -> 4
      [] OTHER -> 5

\* C11: the phases Reset, Configuring, LoadingWeights, LoadingActivations,
\* AwaitingOutput, Terminal are passed in this order, one after the other and
\* never backwards; wgt_in_valid and act_in_valid are never both 1, are 0
\* until the start pulse was given, are 1 only in their own load phase and
\* are 0 in the output phase.
C11_PhasesForward ==
    /\ [](/\ ~(wgt_in_valid = 1 /\ act_in_valid = 1)
          /\ (start_steps = 0 => wgt_in_valid = 0 /\ act_in_valid = 0)
          /\ (wgt_in_valid = 1 => InWgtLoop)
          /\ (act_in_valid = 1 => InActLoop)
          /\ (PhaseRank >= 4 => wgt_in_valid = 0 /\ act_in_valid = 0))
    /\ [][PhaseRank' \in {PhaseRank, PhaseRank + 1}]_vars

\* the output phase, reached after both channels drove beats
C11_Witness == pc = "out_loop" /\ load_valid = {"wgt", "act"}

\* C12: rst_n is 0 over at least 10 clock edges from the start of the run;
\* while it is 0, cfg_valid, start, wgt_in_valid and act_in_valid are 0;
\* once it is 1 it stays 1.
C12_ResetHeld ==
    /\ [](rst_n = 0 => /\ pc = "reset"
                       /\ cfg_valid = 0 /\ start = 0
                       /\ wgt_in_valid = 0 /\ act_in_valid = 0)
    /\ [](rst_n = 1 => /\ edges.rst_low_rises >= 10
                       /\ edges.rst_low_steps >= 10)
    /\ [][rst_n = 1 => rst_n' = 1]_vars

C12_Witness ==
    /\ pc = "cfg_wait" /\ rst_n = 1 /\ cfg_valid = 1
    /\ edges.rst_low_rises = 10 /\ edges.rst_low_steps = 20

\* The beat on a channel's bus is the last one logged while that channel's
\* load loop runs.  Element e of the weight stream is the value of the
\* e-th rand() call, element e of the activation stream that of call
\* wgt_elements + e.
WgtOnBus == InWgtLoop /\ beat_log # <<>>
ActOnBus == InActLoop /\ beat_log # <<>>
BusBeat == beat_log[Len(beat_log)]
WgtElem(e) == Rand2(seed, e)
ActElem(e) == Rand2(seed, wgt_elements + e)
\* the element-wide field of a beat at bit offset off of lane
Field(data, lane, off) == data[lane + 1][off \div wgt_bits + 1]
PerBeat == Lanes * PerWord

\* C13 as stated: element i of a beat is in lane (i mod 4) at bit offset
\* (i div 4) * 2.
C13_LaneMajor ==
    /\ (WgtOnBus => \A i \in 0..(BusBeat.hi - BusBeat.lo - 1) :
          Field(wgt_in_data, i % Lanes, (i \div Lanes) * wgt_bits)
             = WgtElem(BusBeat.lo + i))
    /\ (ActOnBus => \A i \in 0..(BusBeat.hi - BusBeat.lo - 1) :
          Field(act_in_data, i % Lanes, (i \div Lanes) * act_bits)
             = ActElem(BusBeat.lo + i))

\* C13, amended: element i of a beat is in lane (i div 16) at bit offset
\* (i mod 16) * 2, with 4 lanes of 32 bits and 2-bit elements.
C13_WordMajor ==
    /\ (WgtOnBus => \A i \in 0..(BusBeat.hi - BusBeat.lo - 1) :
          Field(wgt_in_data, i \div PerWord, (i % PerWord) * wgt_bits)
             = WgtElem(BusBeat.lo + i))
    /\ (ActOnBus => \A i \in 0..(BusBeat.hi - BusBeat.lo - 1) :
          Field(act_in_data, i \div PerWord, (i % PerWord) * act_bits)
             = ActElem(BusBeat.lo + i))

\* a full beat on the weight bus
C13_Witness == WgtOnBus /\ BusBeat.hi - BusBeat.lo = PerBeat /\ pc = "wgt_step"

\* the beat that carries stream elements lo .. hi-1 low-to-high, lane after
\* lane, with every field above the last element 0
StreamBeat(lo, hi, Elem(_)) ==
    [l \in 1..Lanes |->
        [j \in 1..PerWord |->
            IF lo + PerWord * (l - 1) + (j - 1) < hi
            THEN Elem(lo + PerWord * (l - 1) + (j - 1)) ELSE 0]]

\* C14: beat k (from 0) carries stream elements 64k .. 64k+63 (up to the
\* end of the stream), in stream order low-to-high within a lane and lane
\* after lane, and in a partly filled final beat all bits above the last
\* element are 0.
C14_StreamOrder ==
    /\ \A k \in 1..Len(beat_log) :
          /\ beat_log[k].lo = PerBeat * (k - 1)
          /\ beat_log[k].hi = (IF PerBeat * k < LogElements
                               THEN PerBeat * k ELSE LogElements)
    /\ (WgtOnBus => wgt_in_data = StreamBeat(BusBeat.lo, BusBeat.hi, WgtElem))
    /\ (ActOnBus => act_in_data = StreamBeat(BusBeat.lo, BusBeat.hi, ActElem))

\* a partly filled final beat that follows a full one
C14_Witness ==
    /\ WgtOnBus /\ Len(beat_log) = 2 /\ pc = "wgt_step"
    /\ BusBeat.hi = wgt_elements /\ BusBeat.hi - BusBeat.lo < PerBeat

\* C15: the output loop takes at most max_cycles clock steps whatever the
\* unit does; the wait for cfg_ready does not end while cfg_ready reads 0,
\* and a load loop with elements left neither ends nor packs while its
\* in_ready reads 0, so a unit that never asserts one of them keeps the
\* run out of the terminal phase for ever.
C15_OnlyOutputBounded ==
    /\ [](cycles <= max_cycles)
    /\ [][ /\ (pc = "out_loop" /\ pc' = "out_loop" => cycles' = cycles + 1)
           /\ (pc = "cfg_wait" /\ cfg_ready = 0 => pc' = "cfg_wait")
           /\ (InWgtLoop /\ wgt_sent < wgt_elements /\ wgt_in_ready = 0
                 => InWgtLoop' /\ wgt_sent' = wgt_sent)
           /\ (InActLoop /\ act_sent < act_elements /\ act_in_ready = 0
                 => InActLoop' /\ act_sent' = act_sent) ]_vars

\* the weight loop stepping with nothing packed yet and in_ready read 0
C15_Witness ==
    /\ pc = "wgt_top" /\ wgt_in_ready = 0 /\ wgt_in_valid = 0
    /\ "wgt" \in load_stepped /\ beat_count = 0 /\ wgt_elements > 0

\* C16: when a load phase is over, the number of rising clk edges at which
\* the channel's in_valid and in_ready were both 1 equals beat_count.
C16_RisingEdgeAccepts ==
    /\ (WgtLoopOver => edges.load_rises = beat_count)
    /\ (pc = "act_top" /\ ~LoadCond(act_sent, act_elements)
          => edges.load_rises = beat_count)

\* C17: start is 1 at exactly one rising edge of clk.
C17_StartOneRisingEdge ==
    pc \notin {"reset", "cfg_wait", "start_pulse"} => edges.start_rises = 1

\* C18: the elements-sent counter of a load phase never decreases, never
\* exceeds N, is N when the phase is over, and the beats packed are then
\* ceil(N/64), the precomputed (N*2 + 127) div 128.
C18_SentCounter ==
    /\ [](/\ wgt_sent <= wgt_elements /\ act_sent <= act_elements
          /\ (WgtLoopOver
                => /\ wgt_sent = wgt_elements
                   /\ beat_count = wgt_beats
                   /\ beat_count = (wgt_elements + PerBeat - 1) \div PerBeat)
          /\ (ActLoopOver
                => /\ act_sent = act_elements
                   /\ beat_count = act_beats
                   /\ beat_count = (act_elements + PerBeat - 1) \div PerBeat))
    /\ [][wgt_sent' >= wgt_sent /\ act_sent' >= act_sent]_vars

\* an activation stream of exactly one full beat, done
C18_Witness ==
    /\ pc = "act_top" /\ ActLoopOver
    /\ act_elements = PerBeat /\ beat_count = 1 /\ act_in_last = 1

\* C19: at the top of a load-loop iteration in_valid and the in_ready read
\* are never both 1, and the data words, in_last and the sent counter of a
\* channel change only in steps that start with its in_valid at 0.
C19_NoOverwrite ==
    /\ [](/\ (pc = "wgt_top" => ~(wgt_in_valid = 1 /\ wgt_in_ready = 1))
          /\ (pc = "act_top" => ~(act_in_valid = 1 /\ act_in_ready = 1)))
    /\ [][ /\ (wgt_in_data' # wgt_in_data \/ wgt_in_last' # wgt_in_last
                 \/ wgt_sent' # wgt_sent => wgt_in_valid = 0)
           /\ (act_in_data' # act_in_data \/ act_in_last' # act_in_last
                 \/ act_sent' # act_sent => act_in_valid = 0) ]_vars

\* a pending beat at the top of an iteration, with elements still to pack
C19_Witness ==
    /\ pc = "wgt_top" /\ wgt_in_valid = 1 /\ wgt_in_ready = 0
    /\ wgt_sent < wgt_elements

\* C20: if the wait for cfg_ready is not starved for ever and wgt_in_ready
\* and act_in_ready read 1 again and again while their load loops run, the
\* run reaches the terminal phase, whatever out_valid, out_last, done and
\* error_code do.
C20_Terminates ==
    (/\ []<>(pc = "cfg_wait" => cfg_ready = 1)
     /\ []<>(InWgtLoop => wgt_in_ready = 1)
     /\ []<>(InActLoop => act_in_ready = 1))
        => <>(pc = "done")

\* the terminal phase after both loads and an output loop that used up its
\* budget without a single transfer
C20_Witness ==
    /\ pc = "done" /\ wgt_elements > 0 /\ act_elements > 0
    /\ load_stepped = {"wgt", "act"}
    /\ cycles = max_cycles /\ out_received = 0 /\ out_elements > 0
====
